---- MODULE Spec2Model ----
(***************************************************************************)
(* MS-File-Server: a FastAPI gateway (src/app/main.py) in front of one     *)
(* MinIO bucket (src/app/storage.py).  The bucket is the only persistent   *)
(* state; every request handler is a short sequence of backend calls.      *)
(* Handlers of different requests interleave at their backend calls (the   *)
(* gateway may run as several workers against the same bucket), so each    *)
(* action below is one handler segment: one backend call together with     *)
(* the local code that follows it up to the next backend call or the       *)
(* response.  A worker is one process with one event loop: it runs the     *)
(* lifespan startup on its own, and because the storage methods call the   *)
(* synchronous minio client it handles one request at a time.              *)
(*                                                                         *)
(* last_modified is assigned by the backend and is opaque to the handlers; *)
(* it is not modelled.                                                     *)
(***************************************************************************)
EXTENDS Integers, Sequences, FiniteSets, TLC

\* ------------------------------------------------------------- bounds ---
\* requests accepted in one behaviour
MaxRequests == 3
\* longest request body, in bytes
MaxLen == 2

\* settings.max_file_size: a setting (default 100 MB, read from the
\* environment), configured here to one byte so that bodies on both sides
\* of the limit occur within MaxLen
max_file_size == 1

DEFAULT_TYPE == "application/octet-stream"

\* the worker processes; each has one request in flight at most, so two
\* requests may be in flight at the same time
Slots == {1, 2}
Names == {"a", "b"}
Byte == {0}
Contents == UNION {[1..n -> Byte] : n \in 0..MaxLen}
\* the content type of the uploaded part: None when the client sent none
None == "None"
ClientTypes == {None, "text/plain"}
\* UploadFile.size: the byte count of the part, or None (written
\* UnknownSize) when the framework does not know it
UnknownSize == 0 - 1
DeclaredSizes(c) == {UnknownSize, Len(c)}

VARIABLES
    server,         \* Slots -> where the worker's lifespan startup is:
                    \* "starting" | "making" | "serving", or it ended with
                    \* "aborted" | "rejected"
    bucketExists,   \* whether the configured bucket exists in the backend
    bucket,         \* the objects: a function from the stored names to
                    \* [data, size, content_type]
    req,            \* Slots -> the request handled in that slot
    accepted,       \* requests accepted so far
    last            \* history: per name, what the latest successful upload
                    \* of that name sent (content, content_type), or that
                    \* a delete of the name succeeded since (deleted)

vars == <<server, bucketExists, bucket, req, accepted, last>>

\* --------------------------------------------------- values and helpers ---
Take(s, n) == SubSeq(s, 1, IF n < Len(s) THEN n ELSE Len(s))

\* Python's `x or "application/octet-stream"`: None and "" are falsy
OrDefault(t) == IF t = None \/ t = "" THEN DEFAULT_TYPE ELSE t

FileInfo(n, sz, ct) == [name |-> n, size |-> sz, content_type |-> ct]

EmptyBody == [filename |-> "", size |-> 0, content_type |-> "", data |-> <<>>,
              files |-> <<>>]

\* an exception raised inside a handler's try block
HTTPException(code) == [type |-> "HTTPException", status_code |-> code]
BackendError(kind) == [type |-> kind, status_code |-> 0]

\* how one backend call ends: the backend answers, it rejects the call with
\* an S3 error other than NoSuchKey, or it cannot be reached
BackendAnswers == {"ok", "S3Error", "ConnectionError"}

Statuses == {200, 404, 409, 413, 500}

IdleReq == [op |-> "idle", pc |-> "idle", name |-> "", content |-> <<>>,
            content_type |-> None, size |-> UnknownSize,
            file_info |-> <<>>, pending |-> <<>>, files |-> <<>>,
            status |-> 0, body |-> EmptyBody,
            \* history, not program state
            outcome |-> "", calls |-> 0, faulted |-> FALSE, wrote |-> FALSE,
            seen |-> "", over |-> FALSE, removed |-> FALSE,
            overwritten |-> FALSE]

\* ------------------------------------------------ the backend (MinIO) ---
exists(b, n) == n \in DOMAIN b

\* put_object that leaves an existing object alone (create-if-absent)
put_object_IfAbsent(b, n, data, length, ct) ==
    [m \in DOMAIN b \cup {n} |->
        IF m = n /\ n \notin DOMAIN b
        THEN [data |-> Take(data, length), size |-> length, content_type |-> ct]
        ELSE b[m]]

\* put_object that keeps the content type of an object it replaces
put_object_KeepsType(b, n, data, length, ct) ==
    [m \in DOMAIN b \cup {n} |->
        IF m = n THEN [data |-> Take(data, length), size |-> length,
                       content_type |-> IF n \in DOMAIN b
                                        THEN b[n].content_type ELSE ct]
        ELSE b[m]]

\* put_object: reads `length` bytes of the stream and stores them under the
\* name, replacing whatever was there
put_object(b, n, data, length, ct) ==
    [m \in DOMAIN b \cup {n} |->
        IF m = n THEN [data |-> Take(data, length), size |-> length,
                       content_type |-> ct]
        ELSE b[m]]

\* remove_object that empties the bucket
remove_object_All(b, n) == <<>>

\* remove_object that acknowledges and removes nothing
remove_object_Keeps(b, n) == b

remove_object(b, n) == [m \in DOMAIN b \ {n} |-> b[m]]

\* list_objects: the summaries (name, size; no content type) of all objects,
\* in one of the orders the backend may enumerate them in
RECURSIVE Orders(_)
Orders(S) == IF S = {} THEN {<<>>}
             ELSE UNION {{<<x>> \o t : t \in Orders(S \ {x})} : x \in S}

\* list_objects yielding its first object twice
list_objects_Repeats(b) ==
    {[i \in 1..(Len(o) + 1) |->
        [object_name |-> o[IF i = 1 THEN 1 ELSE i - 1],
         size |-> b[o[IF i = 1 THEN 1 ELSE i - 1]].size]] :
        o \in Orders(DOMAIN b) \ {<<>>}}
    \cup {<<>> : o \in Orders(DOMAIN b) \cap {<<>>}}

list_objects(b) ==
    {[i \in 1..Len(o) |-> [object_name |-> o[i], size |-> b[o[i]].size]] :
        o \in Orders(DOMAIN b)}

\* what remove_object may answer for a name that is not in the bucket: it
\* succeeds without doing anything, or it reports NoSuchKey
RemoveAbsent == {"ok", "NoSuchKey"}

\* --------------------------------------- MinIOStorage (storage.py) ---
\* Each adapter takes the backend's answer and returns [exc, val]: the
\* exception that leaves the method ("none" when it returns) and the value.
file_exists(b, n, ans) ==
    IF ans = "ok" THEN [exc |-> "none", val |-> exists(b, n)]
    ELSE [exc |-> ans, val |-> FALSE]

\* get_file_info without `if e.code == "NoSuchKey": return None`
get_file_info_Raises(b, n, ans) ==
    IF ans # "ok" THEN [exc |-> ans, val |-> <<>>]
    ELSE IF exists(b, n)
         THEN [exc |-> "none",
               val |-> <<FileInfo(n, b[n].size, OrDefault(b[n].content_type))>>]
         ELSE [exc |-> "S3Error", val |-> <<>>]

get_file_info(b, n, ans) ==
    IF ans # "ok" THEN [exc |-> ans, val |-> <<>>]
    ELSE IF exists(b, n)
         THEN [exc |-> "none",
               val |-> <<FileInfo(n, b[n].size, OrDefault(b[n].content_type))>>]
         ELSE [exc |-> "none", val |-> <<>>]

download_file(b, n, ans) ==
    IF ans # "ok" THEN [exc |-> ans, val |-> <<>>]
    ELSE IF exists(b, n) THEN [exc |-> "none", val |-> <<b[n].data>>]
         ELSE [exc |-> "none", val |-> <<>>]

\* upload_file: put_object, then True; the bucket after the call
upload_file(b, n, data, length, ct, ans) ==
    IF ans = "ok" THEN [exc |-> "none", val |-> TRUE,
                        bucket |-> put_object(b, n, data, length, ct)]
    ELSE [exc |-> ans, val |-> FALSE, bucket |-> b]

\* delete_file: remove_object, then True; NoSuchKey gives False
delete_file(b, n, ans, absent) ==
    IF ans # "ok" THEN [exc |-> ans, val |-> FALSE, bucket |-> b]
    ELSE IF exists(b, n) \/ absent = "ok"
         THEN [exc |-> "none", val |-> TRUE, bucket |-> remove_object(b, n)]
         ELSE [exc |-> "none", val |-> FALSE, bucket |-> b]

\* ------------------------------------------------ handlers (main.py) ---
\* the except clauses without `except HTTPException: raise`
ExceptClauses_CatchAll(e) == 500

\* the except clauses shared by upload, download, delete and info:
\* `except HTTPException: raise`, `except Exception: raise HTTPException(500)`
ExceptClauses(e) == IF e.type = "HTTPException" THEN e.status_code ELSE 500

\* list_files has the single clause `except Exception`
ListExceptClause(e) == 500

\* the handler returns or raises: its locals are gone, the response remains
Respond(rq, code, out, bd) ==
    [rq EXCEPT !.pc = "done", !.status = code, !.outcome = out, !.body = bd,
               !.content = <<>>, !.content_type = None, !.size = UnknownSize,
               !.file_info = <<>>, !.pending = <<>>, !.files = <<>>]

Fail(rq, e, out) == Respond(rq, ExceptClauses(e), out, EmptyBody)

\* a backend call raised: the outcome is BackendUnavailable or Unknown
BackendFailed(rq, kind) == Fail(rq, BackendError(kind), "BackendFailure")

\* history: one more backend call, which the backend answered or not
Called(rq, ans) == [rq EXCEPT !.calls = @ + 1,
                              !.faulted = @ \/ ans # "ok"]

\* history: what the request's first backend call found under its name
Saw(rq, b, ans) ==
    [rq EXCEPT !.seen = IF ans # "ok" THEN ""
                        ELSE IF exists(b, rq.name) THEN "present" ELSE "absent"]

\* history: tell the other requests on name n, and the listings, that n was
\* removed/overwritten
Note(q, r, n, what) ==
    [s \in Slots |->
        IF s # r /\ (q[s].name = n \/ q[s].op = "list")
        THEN IF what = "removed" THEN [q[s] EXCEPT !.removed = TRUE]
             ELSE [q[s] EXCEPT !.overwritten = TRUE]
        ELSE q[s]]

\* CanAccept of a worker that takes requests whatever its startup did
CanAccept_Unguarded(r) ==
    /\ req[r].op = "idle"
    /\ accepted < MaxRequests

\* the worker takes a request: its lifespan startup has completed (uvicorn
\* serves only after it), and it is not in the middle of another handler
CanAccept(r) ==
    /\ server[r] = "serving"
    /\ req[r].op = "idle"
    /\ accepted < MaxRequests

\* ------------------------------------------------------------ startup ---
\* history: the latest successful upload of n sent content c with type t
Uploaded(l, n, c, t) ==
    [m \in DOMAIN l \cup {n} |->
        IF m = n THEN [content |-> c, content_type |-> t, deleted |-> FALSE]
        ELSE l[m]]

\* what earlier runs of the gateway have left in the backend: nothing, or
\* one object, uploaded as text/plain
Earlier ==
    {<<>>, <<[name |-> "a", content |-> <<0>>, content_type |-> "text/plain"]>>}

\* the workers start; the bucket is persistent and may be there already,
\* with what an earlier run has stored
Init ==
    /\ server = [p \in Slots |-> "starting"]
    /\ req = [r \in Slots |-> IdleReq]
    /\ accepted = 0
    /\ \E e \in Earlier :
         IF e = <<>>
         THEN /\ bucketExists \in BOOLEAN
              /\ bucket = <<>>
              /\ last = <<>>
         ELSE /\ bucketExists = TRUE
              /\ bucket = put_object(<<>>, e[1].name, e[1].content,
                                     Len(e[1].content),
                                     OrDefault(e[1].content_type))
              /\ last = Uploaded(<<>>, e[1].name, e[1].content,
                                 e[1].content_type)

\* client.bucket_exists, as _ensure_bucket goes on from it: a failed call
\* ends the startup, a bucket that is there needs nothing more
bucket_exists(be, ans) ==
    IF ans # "ok" THEN "aborted"
    ELSE IF be THEN "serving" ELSE "making"

\* client.make_bucket: the backend refuses to create a bucket that is there
\* (BucketAlreadyOwnedByYou, an S3Error); _ensure_bucket logs and re-raises
make_bucket(be, ans) ==
    IF ans # "ok" THEN [exists |-> be, server |-> "aborted"]
    ELSE IF be THEN [exists |-> TRUE, server |-> "rejected"]
    ELSE [exists |-> TRUE, server |-> "serving"]

\* lifespan: MinIOStorage(...) runs _ensure_bucket, first its bucket_exists
\* call; an exception aborts the startup and the worker never serves
EnsureBucketCheck(p) ==
    /\ server[p] = "starting"
    /\ \E ans \in BackendAnswers :
         server' = [server EXCEPT ![p] = bucket_exists(bucketExists, ans)]
    /\ UNCHANGED <<bucketExists, bucket, req, accepted, last>>

\* _ensure_bucket found no bucket: its make_bucket call
EnsureBucketMake(p) ==
    /\ server[p] = "making"
    /\ \E ans \in BackendAnswers :
         LET res == make_bucket(bucketExists, ans) IN
         /\ bucketExists' = res.exists
         /\ server' = [server EXCEPT ![p] = res.server]
    /\ UNCHANGED <<bucket, req, accepted, last>>

\* the response has been sent; the slot is free again
Release(r) ==
    /\ req[r].pc = "done"
    /\ req' = [req EXCEPT ![r] = IdleReq]
    /\ UNCHANGED <<server, bucketExists, bucket, accepted, last>>

\* ------------------------------------------------------------- upload ---
\* SizeGate that lets every size pass
SizeGate_Off(sz) == FALSE

\* SizeGate comparing against twice the limit
SizeGate_Doubled(sz) ==
    sz # UnknownSize /\ sz # 0 /\ sz > 2 * max_file_size

\* `if file.size and file.size > settings.max_file_size`
SizeGate(sz) == sz # UnknownSize /\ sz # 0 /\ sz > max_file_size

\* UploadCheck without its `if await storage.file_exists(...)` rejection
UploadCheck_Overwrites(rq, b, ans) ==
    IF SizeGate(rq.size)
    THEN Fail(rq, HTTPException(413), "TooLarge")
    ELSE LET res == file_exists(b, rq.name, ans)
             c == Saw(Called(rq, ans), b, ans)
         IN  IF res.exc # "none" THEN BackendFailed(c, res.exc)
             ELSE [c EXCEPT !.pc = "put"]

\* UploadCheck with the existence check before the size gate
UploadCheck_ExistsFirst(rq, b, ans) ==
    LET res == file_exists(b, rq.name, ans)
        c == Saw(Called(rq, ans), b, ans)
    IN  IF res.exc # "none" THEN BackendFailed(c, res.exc)
        ELSE IF res.val THEN Fail(c, HTTPException(409), "AlreadyExists")
        ELSE IF SizeGate(rq.size)
        THEN Fail(c, HTTPException(413), "TooLarge")
        ELSE [c EXCEPT !.pc = "put"]

\* lines 84-97: the size gate, then the existence check
UploadCheck(rq, b, ans) ==
    IF SizeGate(rq.size)
    THEN Fail(rq, HTTPException(413), "TooLarge")
    ELSE LET res == file_exists(b, rq.name, ans)
             c == Saw(Called(rq, ans), b, ans)
         IN  IF res.exc # "none" THEN BackendFailed(c, res.exc)
             ELSE IF res.val THEN Fail(c, HTTPException(409), "AlreadyExists")
             ELSE [c EXCEPT !.pc = "put"]

\* an upload request arrives and runs up to its existence check
UploadStart(r) ==
    /\ CanAccept(r)
    /\ accepted' = accepted + 1
    /\ \E n \in Names, c \in Contents, t \in ClientTypes, ans \in BackendAnswers :
         \E sz \in DeclaredSizes(c) :
           req' = [req EXCEPT ![r] =
                     UploadCheck([IdleReq EXCEPT !.op = "upload", !.name = n,
                                                 !.content = c, !.content_type = t,
                                                 !.size = sz,
                                                 !.over = sz # UnknownSize
                                                          /\ sz > max_file_size],
                                 bucket, ans)]
    /\ UNCHANGED <<server, bucketExists, bucket, last>>

\* the response of a successful upload: size is len(file_content) and
\* content_type is file.content_type as the client sent it
UploadBody(rq) == [EmptyBody EXCEPT !.filename = rq.name,
                                    !.size = Len(rq.content),
                                    !.content_type = rq.content_type]

\* UploadWrite that calls the backend again after a failed put
UploadWrite_Retries(rq, res) ==
    IF res.exc # "none" THEN rq
    ELSE IF res.val THEN Respond(rq, 200, "Success", UploadBody(rq))
    ELSE Fail(rq, HTTPException(500), "BackendFailure")

\* lines 99-119: file.read(), storage.upload_file(name, BytesIO(content),
\* len(content), content_type = file.content_type or default), the response
UploadWrite(rq, res) ==
    IF res.exc # "none" THEN BackendFailed(rq, res.exc)
    ELSE IF res.val THEN Respond(rq, 200, "Success", UploadBody(rq))
    ELSE Fail(rq, HTTPException(500), "BackendFailure")

UploadPut(r) ==
    /\ req[r].op = "upload" /\ req[r].pc = "put"
    /\ \E ans \in BackendAnswers :
         LET rq == req[r]
             res == upload_file(bucket, rq.name, rq.content, Len(rq.content),
                                OrDefault(rq.content_type), ans)
             put == ans = "ok" \/ res.bucket # bucket
         IN  /\ bucket' = res.bucket
             /\ req' = [(IF put THEN Note(req, r, rq.name, "overwritten")
                         ELSE req) EXCEPT ![r] =
                           UploadWrite([Called(rq, ans) EXCEPT !.wrote = put],
                                       res)]
             /\ last' = IF put
                        THEN Uploaded(last, rq.name, rq.content, rq.content_type)
                        ELSE last
    /\ UNCHANGED <<server, bucketExists, accepted>>

\* ----------------------------------------------------------- download ---
\* lines 134-137: the existence check
DownloadCheck(rq, b, ans) ==
    LET res == file_exists(b, rq.name, ans)
        c == Saw(Called(rq, ans), b, ans)
    IN  IF res.exc # "none" THEN BackendFailed(c, res.exc)
        ELSE IF ~res.val THEN Fail(c, HTTPException(404), "NotFound")
        ELSE [c EXCEPT !.pc = "info"]

DownloadStart(r) ==
    /\ CanAccept(r)
    /\ accepted' = accepted + 1
    /\ \E n \in Names, ans \in BackendAnswers :
         req' = [req EXCEPT ![r] =
                   DownloadCheck([IdleReq EXCEPT !.op = "download", !.name = n],
                                 bucket, ans)]
    /\ UNCHANGED <<server, bucketExists, bucket, last>>

\* line 140: file_info = await storage.get_file_info(filename)
DownloadInfo(r) ==
    /\ req[r].op = "download" /\ req[r].pc = "info"
    /\ \E ans \in BackendAnswers :
         LET res == get_file_info(bucket, req[r].name, ans) IN
         req' = [req EXCEPT ![r] =
                   IF res.exc # "none" THEN BackendFailed(Called(@, ans), res.exc)
                   ELSE [Called(@, ans) EXCEPT !.pc = "get",
                                               !.file_info = res.val]]
    /\ UNCHANGED <<server, bucketExists, bucket, accepted, last>>

\* DownloadBody that never looks at file_info
DownloadBody_NoMediaType(rq, data) ==
    [EmptyBody EXCEPT !.filename = rq.name, !.data = data, !.size = Len(data),
                      !.content_type = DEFAULT_TYPE]

\* StreamingResponse(BytesIO(file_data.read()),
\*     media_type = file_info.content_type if file_info else default)
DownloadBody(rq, data) ==
    [EmptyBody EXCEPT !.filename = rq.name,
                      !.data = data,
                      !.size = Len(data),
                      !.content_type = IF rq.file_info # <<>>
                                       THEN rq.file_info[1].content_type
                                       ELSE DEFAULT_TYPE]

\* lines 143-153: storage.download_file, None gives 404
DownloadGet(r) ==
    /\ req[r].op = "download" /\ req[r].pc = "get"
    /\ \E ans \in BackendAnswers :
         LET res == download_file(bucket, req[r].name, ans) IN
         req' = [req EXCEPT ![r] =
                   IF res.exc # "none" THEN BackendFailed(Called(@, ans), res.exc)
                   ELSE IF res.val = <<>>
                   THEN Fail(Called(@, ans), HTTPException(404), "NotFound")
                   ELSE Respond(Called(@, ans), 200, "Success",
                                DownloadBody(@, res.val[1]))]
    /\ UNCHANGED <<server, bucketExists, bucket, accepted, last>>

\* --------------------------------------------------------------- list ---
ListFail(rq, kind) ==
    Respond(rq, ListExceptClause(BackendError(kind)), "BackendFailure",
            EmptyBody)

\* a list request arrives; storage.list_files enumerates the bucket
ListStart(r) ==
    /\ CanAccept(r)
    /\ accepted' = accepted + 1
    /\ \E ans \in BackendAnswers :
         LET rq == Called([IdleReq EXCEPT !.op = "list"], ans) IN
         IF ans # "ok"
         THEN req' = [req EXCEPT ![r] = ListFail(rq, ans)]
         ELSE \E objects \in list_objects(bucket) :
                req' = [req EXCEPT ![r] =
                          IF objects = <<>>
                          THEN Respond(rq, 200, "Success", EmptyBody)
                          ELSE [rq EXCEPT !.pc = "stat", !.pending = objects]]
    /\ UNCHANGED <<server, bucketExists, bucket, last>>

\* ListRecord without the follow-up stat: the listing carries no content
\* type, so FileInfo's default stands
ListRecord_NoStat(obj, stat) ==
    FileInfo(obj.object_name, obj.size, DEFAULT_TYPE)

\* lines 79-84: name and size from the listing, content type from the stat
ListRecord(obj, stat) ==
    FileInfo(obj.object_name, obj.size, OrDefault(stat.content_type))

\* one turn of `for obj in objects`: stat_object raises S3Error(NoSuchKey)
\* when the object is gone, and list_files re-raises every S3Error
ListStat(r) ==
    /\ req[r].op = "list" /\ req[r].pc = "stat"
    /\ \E ans \in BackendAnswers :
         LET obj == Head(req[r].pending)
             gone == ~exists(bucket, obj.object_name)
             files == Append(req[r].files,
                             ListRecord(obj, bucket[obj.object_name]))
         IN
         req' = [req EXCEPT ![r] =
                   IF ans # "ok" THEN ListFail(Called(@, ans), ans)
                   ELSE IF gone THEN ListFail(Called(@, ans), "S3Error")
                   ELSE IF Len(@.pending) = 1
                   THEN Respond(Called(@, ans), 200, "Success",
                                [EmptyBody EXCEPT !.files = files])
                   ELSE [Called(@, ans) EXCEPT !.pending = Tail(@),
                                               !.files = files]]
    /\ UNCHANGED <<server, bucketExists, bucket, accepted, last>>

\* ------------------------------------------------------------- delete ---
\* lines 179-182: the existence check
DeleteCheck(rq, b, ans) ==
    LET res == file_exists(b, rq.name, ans)
        c == Saw(Called(rq, ans), b, ans)
    IN  IF res.exc # "none" THEN BackendFailed(c, res.exc)
        ELSE IF ~res.val THEN Fail(c, HTTPException(404), "NotFound")
        ELSE [c EXCEPT !.pc = "remove"]

DeleteStart(r) ==
    /\ CanAccept(r)
    /\ accepted' = accepted + 1
    /\ \E n \in Names, ans \in BackendAnswers :
         req' = [req EXCEPT ![r] =
                   DeleteCheck([IdleReq EXCEPT !.op = "delete", !.name = n],
                               bucket, ans)]
    /\ UNCHANGED <<server, bucketExists, bucket, last>>

\* DeleteWrite with the test on `success` inverted
DeleteWrite_Inverted(rq, res) ==
    IF res.exc # "none" THEN BackendFailed(rq, res.exc)
    ELSE IF ~res.val THEN Respond(rq, 200, "Success", EmptyBody)
    ELSE Fail(rq, HTTPException(500), "BackendFailure")

\* lines 184-190: `if success: 200 else: HTTPException(500)`
DeleteWrite(rq, res) ==
    IF res.exc # "none" THEN BackendFailed(rq, res.exc)
    ELSE IF res.val THEN Respond(rq, 200, "Success", EmptyBody)
    ELSE Fail(rq, HTTPException(500), "BackendFailure")

Deleted(l, n) ==
    [m \in DOMAIN l \cup {n} |->
        IF m = n THEN [content |-> <<>>, content_type |-> None, deleted |-> TRUE]
        ELSE l[m]]

DeleteRemove(r) ==
    /\ req[r].op = "delete" /\ req[r].pc = "remove"
    /\ \E ans \in BackendAnswers, absent \in RemoveAbsent :
         LET rq == req[r]
             res == delete_file(bucket, rq.name, ans, absent)
             changed == res.bucket # bucket
             new == DeleteWrite([Called(rq, ans) EXCEPT !.wrote = changed], res)
         IN  /\ bucket' = res.bucket
             /\ req' = [(IF changed THEN Note(req, r, rq.name, "removed")
                         ELSE req) EXCEPT ![r] = new]
             /\ last' = IF new.status = 200 THEN Deleted(last, rq.name)
                        ELSE last
    /\ UNCHANGED <<server, bucketExists, accepted>>

\* --------------------------------------------------------------- info ---
InfoResult(rq, res) ==
    IF res.exc # "none" THEN BackendFailed(rq, res.exc)
    ELSE IF res.val = <<>> THEN Fail(rq, HTTPException(404), "NotFound")
    ELSE Respond(rq, 200, "Success",
                 [EmptyBody EXCEPT !.filename = res.val[1].name,
                                   !.size = res.val[1].size,
                                   !.content_type = res.val[1].content_type])

GetFileInfo(r) ==
    /\ CanAccept(r)
    /\ accepted' = accepted + 1
    /\ \E n \in Names, ans \in BackendAnswers :
         req' = [req EXCEPT ![r] =
                   InfoResult(Saw(Called([IdleReq EXCEPT !.op = "info",
                                                         !.name = n], ans),
                                  bucket, ans),
                              get_file_info(bucket, n, ans))]
    /\ UNCHANGED <<server, bucketExists, bucket, last>>

\* ------------------------------------------------------------- health ---
HealthCheck(r) ==
    /\ CanAccept(r)
    /\ accepted' = accepted + 1
    /\ req' = [req EXCEPT ![r] =
                 Respond([IdleReq EXCEPT !.op = "health"], 200, "Success",
                         EmptyBody)]
    /\ UNCHANGED <<server, bucketExists, bucket, last>>

Next ==
    \/ \E r \in Slots : EnsureBucketCheck(r)
    \/ \E r \in Slots : EnsureBucketMake(r)
    \/ \E r \in Slots : Release(r)
    \/ \E r \in Slots : UploadStart(r)
    \/ \E r \in Slots : UploadPut(r)
    \/ \E r \in Slots : DownloadStart(r)
    \/ \E r \in Slots : DownloadInfo(r)
    \/ \E r \in Slots : DownloadGet(r)
    \/ \E r \in Slots : ListStart(r)
    \/ \E r \in Slots : ListStat(r)
    \/ \E r \in Slots : DeleteStart(r)
    \/ \E r \in Slots : DeleteRemove(r)
    \/ \E r \in Slots : GetFileInfo(r)
    \/ \E r \in Slots : HealthCheck(r)

Spec == Init /\ [][Next]_vars

\* the steps of a handler after its first: each is a backend call returning,
\* with a result or an error, and the handler running on from it
Continue(r) ==
    \/ UploadPut(r)
    \/ DownloadInfo(r)
    \/ DownloadGet(r)
    \/ ListStat(r)
    \/ DeleteRemove(r)

\* a request may still be taken in the behaviours that stop one request
\* short of MaxRequests
MayAccept == accepted + 1 < MaxRequests

\* the steps of Next in those behaviours
FairNext ==
    \/ \E r \in Slots : EnsureBucketCheck(r)
    \/ \E r \in Slots : EnsureBucketMake(r)
    \/ \E r \in Slots : Release(r)
    \/ \E r \in Slots : MayAccept /\ UploadStart(r)
    \/ \E r \in Slots : MayAccept /\ DownloadStart(r)
    \/ \E r \in Slots : MayAccept /\ ListStart(r)
    \/ \E r \in Slots : MayAccept /\ DeleteStart(r)
    \/ \E r \in Slots : MayAccept /\ GetFileInfo(r)
    \/ \E r \in Slots : MayAccept /\ HealthCheck(r)
    \/ \E r \in Slots : Continue(r)

\* every backend call eventually returns and the worker then runs on
FairSpec ==
    Init /\ [][FairNext]_vars /\ \A r \in Slots : WF_vars(Continue(r))

\* ============================================================ claims ===
\* the content type an object is expected to carry when the uploader sent t
Expected(t) == IF t = None \/ t = "" THEN "application/octet-stream" ELSE t

Done(r, op) == req[r].op = op /\ req[r].pc = "done"

Untouched(r) == ~req[r].removed /\ ~req[r].overwritten

\* C1 (uniqueness): an upload of N that passes the size gate and whose
\* existence check finds N stored (N was uploaded before and not deleted
\* since) ends with 409 AlreadyExists and writes nothing; unless another
\* request changed N meanwhile, N still holds the bytes and the content type
\* of the earlier upload.
C1_Uniqueness ==
    \A r \in Slots :
        Done(r, "upload") /\ req[r].seen = "present" =>
            /\ req[r].status = 409
            /\ ~req[r].wrote
            /\ Untouched(r) =>
                 /\ req[r].name \in DOMAIN bucket
                 /\ req[r].name \in DOMAIN last
                 /\ bucket[req[r].name].data = last[req[r].name].content
                 /\ bucket[req[r].name].content_type
                      = Expected(last[req[r].name].content_type)

C1_Witness ==
    \E r \in Slots :
        /\ Done(r, "upload") /\ req[r].seen = "present"
        /\ req[r].status = 409
        /\ req[r].name \in DOMAIN last
        /\ last[req[r].name].content # <<>>
        /\ bucket[req[r].name].data = last[req[r].name].content

\* C2 (round trip): a download of N whose backend calls are all answered,
\* that finds N stored and during which no other request writes or removes
\* N, returns 200 with exactly the bytes of the latest successful upload of
\* N and with the content type that upload sent, or the default
\* application/octet-stream when it sent none.
C2_RoundTrip ==
    \A r \in Slots :
        /\ Done(r, "download") /\ req[r].seen = "present"
        /\ ~req[r].faulted /\ Untouched(r)
        => /\ req[r].status = 200
           /\ req[r].name \in DOMAIN last
           /\ req[r].body.data = last[req[r].name].content
           /\ req[r].body.content_type = Expected(last[req[r].name].content_type)

C2_Witness ==
    \E r, u \in Slots :
        /\ Done(r, "download") /\ req[r].status = 200 /\ Untouched(r)
        /\ Done(u, "upload") /\ req[u].status = 200
        /\ req[u].name = req[r].name
        /\ req[r].body.data = <<0>>
        /\ req[r].body.content_type = "text/plain"

\* C3 (size gate): an upload whose declared size is known and greater than
\* max_file_size ends with 413, having made no backend call and no write;
\* the bucket is as it was.
C3_SizeGate ==
    \A r \in Slots :
        Done(r, "upload") /\ req[r].over =>
            /\ req[r].status = 413
            /\ req[r].calls = 0
            /\ ~req[r].wrote
            /\ req[r].seen = ""

C3_Witness ==
    \E r \in Slots :
        /\ Done(r, "upload") /\ req[r].over /\ req[r].status = 413
        /\ req[r].name \notin DOMAIN bucket

\* C4 (not-found symmetry): a download, getInfo or delete of N whose first
\* backend call is answered and finds no object under N ends with 404 after
\* that single call and changes nothing in the bucket.
C4_NotFound ==
    \A r \in Slots :
        /\ req[r].op \in {"download", "info", "delete"}
        /\ req[r].pc = "done" /\ req[r].seen = "absent"
        => /\ req[r].status = 404
           /\ req[r].calls = 1
           /\ ~req[r].wrote

\* a download of a name that was uploaded and then deleted
C4_Witness ==
    \E d \in Slots :
        /\ Done(d, "download") /\ req[d].status = 404 /\ req[d].seen = "absent"
        /\ req[d].name \in DOMAIN last /\ last[req[d].name].deleted

\* C5 (delete then query): a delete of N that finds N stored, whose backend
\* calls are answered and which no other delete overtakes, returns 200; from
\* then on, until N is uploaded again, N is not in the bucket, and a delete
\* of N in that time returns 404.
C5_DeleteThenQuery ==
    /\ \A r \in Slots :
          /\ Done(r, "delete") /\ req[r].seen = "present"
          /\ ~req[r].faulted /\ ~req[r].removed
          => req[r].status = 200 /\ req[r].wrote
    /\ \A n \in DOMAIN last : last[n].deleted => ~exists(bucket, n)
    /\ \A r \in Slots :
          /\ Done(r, "delete")
          /\ req[r].name \in DOMAIN last /\ last[req[r].name].deleted
          /\ req[r].seen = "absent"
          => req[r].status = 404

\* a second delete, after a first one that returned 200
C5_Witness ==
    \E r, d \in Slots :
        /\ r # d
        /\ Done(d, "delete") /\ req[d].status = 200 /\ req[d].wrote
        /\ Done(r, "delete") /\ req[r].status = 404
        /\ req[r].name = req[d].name
        /\ ~exists(bucket, req[r].name)

\* the records of a listing, as a set of names
ListedNames(files) == {files[i].name : i \in 1..Len(files)}

\* C6 (listing completeness): a listing whose backend calls are all answered
\* and during which no request writes or removes an object returns 200 with
\* exactly one record per object in the bucket, each with the size of the
\* bytes written by the latest upload of that name and with the content type
\* that upload sent, or the default.
C6_ListingComplete ==
    \A r \in Slots :
        Done(r, "list") /\ ~req[r].faulted /\ Untouched(r) =>
            LET files == req[r].body.files IN
            /\ req[r].status = 200
            /\ Len(files) = Cardinality(DOMAIN bucket)
            /\ ListedNames(files) = DOMAIN bucket
            /\ \A i \in 1..Len(files) :
                 /\ files[i].name \in DOMAIN last
                 /\ files[i].size = Len(last[files[i].name].content)
                 /\ files[i].content_type
                      = Expected(last[files[i].name].content_type)

C6_Witness ==
    \E r \in Slots :
        /\ Done(r, "list") /\ req[r].status = 200 /\ Untouched(r)
        /\ Len(req[r].body.files) = 2
        /\ ListedNames(req[r].body.files) = Names
        /\ \E i \in 1..2 : /\ req[r].body.files[i].content_type = "text/plain"
                           /\ req[r].body.files[i].size = 1

C8_ContentTypeImmutable ==
    [][\A n \in DOMAIN bucket \cap DOMAIN bucket' :
          bucket'[n].content_type = bucket[n].content_type]_vars

StatusOf(o) ==
    CASE o = "Success" -> 200
      [] o = "NotFound" -> 404
      [] o = "AlreadyExists" -> 409
      [] o = "TooLarge" -> 413
      [] o = "BackendFailure" -> 500
      [] OTHER -> 0

C10_AllOrNothing ==
    \A r \in Slots :
        req[r].pc = "done" /\ req[r].status # 200 => ~req[r].wrote

\* an upload that failed at its put, and a delete that failed at its remove
C10_Witness ==
    \E r1, r2 \in Slots :
        /\ Done(r1, "upload") /\ req[r1].status = 500 /\ req[r1].calls = 2
        /\ ~exists(bucket, req[r1].name)
        /\ Done(r2, "delete") /\ req[r2].status = 500 /\ req[r2].calls = 2
        /\ exists(bucket, req[r2].name)

\* C11 (delete reports success once its check passed): a delete all of
\* whose backend calls are answered ends with 200 or 404, also when another
\* request removes the object between its existence check and its remove.
C11_DeleteSucceeds ==
    \A r \in Slots :
        Done(r, "delete") /\ ~req[r].faulted => req[r].status \in {200, 404}

\* C12 (fatal startup): a worker handles a request only after its own
\* startup has completed successfully, at which time the bucket exists; a
\* worker whose startup has not completed, or has ended with an error, holds
\* no request, and while no worker serves no request has been accepted.
C12_FatalStartup ==
    /\ \A r \in Slots :
          /\ req[r].op # "idle" => server[r] = "serving"
          /\ server[r] = "serving" => bucketExists
          /\ server[r] # "serving" => req[r] = IdleReq
    /\ (\A p \in Slots : server[p] # "serving") => accepted = 0

\* one worker's startup failed and it holds no request, while the other
\* worker has answered an upload with 200
C12_Witness ==
    \E p, q \in Slots :
        /\ server[p] \in {"aborted", "rejected"} /\ req[p] = IdleReq
        /\ server[q] = "serving"
        /\ Done(q, "upload") /\ req[q].status = 200

\* the position of a name in the order of names
Rank(n) == IF n = "a" THEN 1 ELSE 2

\* C13 (ordered listing): the records of a listing that returned 200 are in
\* the order of their names, whatever order the backend enumerated the
\* objects in.
C13_OrderedListing ==
    \A r \in Slots :
        Done(r, "list") /\ req[r].status = 200 =>
            LET files == req[r].body.files IN
            \A i, j \in 1..Len(files) :
                i < j => Rank(files[i].name) <= Rank(files[j].name)

\* no two positions of a sequence of names hold the same name
Distinct(names) ==
    \A i, j \in 1..Len(names) : i # j => names[i] # names[j]

\* the names a list request has recorded so far followed by those it still
\* has to stat
Listing(rq) ==
    [i \in 1..Len(rq.files) |-> rq.files[i].name]
    \o [i \in 1..Len(rq.pending) |-> rq.pending[i].object_name]

\* C14 (flat namespace): the bucket holds one object per stored name (it is
\* a function of the name) and only under names a request has uploaded; a
\* list request never holds, and never returns, two records with the same
\* name, also when uploads of the same name have raced.
C14_FlatNamespace ==
    /\ DOMAIN bucket \subseteq DOMAIN last
    /\ \A r \in Slots :
          req[r].op = "list" =>
              /\ Distinct(Listing(req[r]))
              /\ Distinct([i \in 1..Len(req[r].body.files) |->
                              req[r].body.files[i].name])

\* a listing that returns the object two racing uploads have both put
C14_Witness ==
    \E r, u \in Slots :
        /\ Done(r, "list") /\ req[r].status = 200
        /\ Len(req[r].body.files) = 1
        /\ req[r].body.files[1].name = req[u].name
        /\ Done(u, "upload") /\ req[u].status = 200 /\ req[u].overwritten

\* C15 (upload step order): an upload whose declared size is over the limit
\* ends with 413 before any backend call, also when its name is stored; the
\* put is the second backend call of an upload and is issued only after the
\* existence check, the first, returned false; an upload whose existence
\* check returned true ends with 409 after that one call and writes nothing.
C15_UploadOrder ==
    \A r \in Slots :
        req[r].op = "upload" =>
            /\ req[r].over =>
                 req[r].pc = "done" /\ req[r].status = 413 /\ req[r].calls = 0
            /\ req[r].pc = "put" =>
                 req[r].seen = "absent" /\ req[r].calls = 1
            /\ req[r].calls = 2 \/ req[r].wrote => req[r].seen = "absent"
            /\ req[r].seen = "present" =>
                 /\ req[r].pc = "done" /\ req[r].status = 409
                 /\ req[r].calls = 1 /\ ~req[r].wrote

\* an upload over the limit under a stored name: 413, not 409
C15_Witness ==
    \E r \in Slots :
        /\ Done(r, "upload") /\ req[r].over /\ req[r].status = 413
        /\ exists(bucket, req[r].name)

\* C16 (upload response reflects the write): the record returned by an upload
\* that ended with 200, whose object no other request has removed or
\* overwritten since, carries the content type and the size stored for the
\* object; with no content type supplied both are the default.
C16_ResponseReflectsWrite ==
    \A r \in Slots :
        Done(r, "upload") /\ req[r].status = 200 /\ Untouched(r) =>
            /\ exists(bucket, req[r].name)
            /\ req[r].body.content_type = bucket[req[r].name].content_type
            /\ req[r].body.size = bucket[req[r].name].size

\* the handler in worker r is between two of its backend calls: its next
\* backend call is outstanding
Outstanding(r) == req[r].pc \notin {"idle", "done"}

\* C17 (non-blocking request handling): a worker whose handler has a backend
\* call outstanding can, while the bound on requests is not reached, accept
\* another request (a health check, which contacts no backend).
C17_NonBlocking ==
    \A r \in Slots :
        server[r] = "serving" /\ Outstanding(r) /\ accepted < MaxRequests
            => ENABLED HealthCheck(r)

\* the object that the latest successful upload of n stores
Stored(n) ==
    [data |-> last[n].content, size |-> Len(last[n].content),
     content_type |-> Expected(last[n].content_type)]

\* C18 (no caching, whole replacement): every stored object is exactly what
\* the latest successful upload of its name sent, with nothing of an earlier
\* object of that name; and a getInfo, download or list whose backend calls
\* are all answered and since whose start no request has written or removed
\* what it reads reports the bucket as it is: 404 for a name that is not
\* stored, else 200 with the stored size, content type and bytes.
C18_NoCaching ==
    /\ \A n \in DOMAIN bucket : bucket[n] = Stored(n)
    /\ \A r \in Slots :
          /\ Done(r, "info") \/ Done(r, "download")
          /\ ~req[r].faulted /\ Untouched(r)
          => IF exists(bucket, req[r].name)
             THEN /\ req[r].status = 200
                  /\ req[r].body.size = bucket[req[r].name].size
                  /\ req[r].body.content_type
                       = bucket[req[r].name].content_type
                  /\ Done(r, "download") =>
                       req[r].body.data = bucket[req[r].name].data
             ELSE req[r].status = 404
    /\ \A r \in Slots :
          Done(r, "list") /\ ~req[r].faulted /\ Untouched(r) =>
              \A i \in 1..Len(req[r].body.files) :
                  LET f == req[r].body.files[i] IN
                  /\ exists(bucket, f.name)
                  /\ f.size = bucket[f.name].size
                  /\ f.content_type = bucket[f.name].content_type

\* "a", stored by an earlier run with one byte as text/plain, was deleted
\* and uploaded again with no byte and no content type; a getInfo after
\* that reports size 0 and the default type
C18_Witness ==
    \E d, r \in Slots :
        /\ Done(d, "delete") /\ req[d].status = 200 /\ req[d].wrote
        /\ req[d].overwritten
        /\ Done(r, "info") /\ req[r].status = 200 /\ Untouched(r)
        /\ req[r].name = req[d].name
        /\ req[r].body.size = 0
        /\ req[r].body.content_type = DEFAULT_TYPE

\* the step changes whether m is stored, or the object stored under m
Changes(m) ==
    \/ exists(bucket, m) # exists(bucket', m)
    \/ exists(bucket, m) /\ exists(bucket', m) /\ bucket[m] # bucket'[m]

\* C19 (independence, read-only frame): a step changes the existence or the
\* object of a name m only if it is the put of an upload of m or the remove
\* of a delete of m; hence an upload or delete of another name, a download,
\* a getInfo, a listing or a health check changes nothing under m.
C19_Frame ==
    [][\A m \in Names :
          Changes(m) =>
              \E r \in Slots :
                  /\ req[r].name = m
                  /\ \/ req[r].op = "upload" /\ req[r].pc = "put"
                     \/ req[r].op = "delete" /\ req[r].pc = "remove"
                  /\ req'[r].pc = "done" /\ req'[r].wrote]_vars

\* a delete has removed its object next to a stored object of another name,
\* which an upload has written and which is as that upload left it
C19_Witness ==
    \E d, u \in Slots :
        /\ Done(d, "delete") /\ req[d].status = 200 /\ req[d].wrote
        /\ Done(u, "upload") /\ req[u].status = 200
        /\ req[u].name # req[d].name
        /\ ~exists(bucket, req[d].name)
        /\ exists(bucket, req[u].name)
        /\ bucket[req[u].name] = Stored(req[u].name)
        /\ ~req[u].overwritten

\* C20 (ensureBucket is idempotent): no run of the startup's bucket check
\* and creation fails while the backend answers its calls, also when two
\* workers start at the same time: no worker's make_bucket is refused
\* because the bucket is there.
C20_EnsureBucketIdempotent ==
    \A p \in Slots : server[p] # "rejected"

\* C21 (download snapshot): when a download's get step returns 200, the
\* content type of the response is the content type of the object the bytes
\* were read from, also when other requests have deleted and re-uploaded the
\* name since the download's stat call.
C21_DownloadSnapshot ==
    [][\A r \in Slots :
          /\ req[r].op = "download" /\ req[r].pc = "get"
          /\ req'[r].pc = "done" /\ req'[r].status = 200
          => /\ req'[r].body.data = bucket[req[r].name].data
             /\ req'[r].body.content_type = bucket[req[r].name].content_type]_vars

\* C22 (listing robust to concurrent deletes): a list request all of whose
\* backend calls are answered ends with 200, also when another request
\* removes an object between the enumeration and that object's stat.
C22_ListingRobust ==
    \A r \in Slots :
        Done(r, "list") /\ ~req[r].faulted => req[r].status = 200

\* C23 (stored-size bound): no object in the bucket is larger than
\* max_file_size, whatever size its upload declared.
C23_StoredSizeBound ==
    \A n \in DOMAIN bucket : bucket[n].size <= max_file_size

\* C23 amended (stored-size bound for known sizes): the put of an upload
\* whose size the size gate knew stores an object not larger than
\* max_file_size; only an upload of unknown size can store more.
C23_KnownSizeBound ==
    [][\A r \in Slots :
          /\ req[r].op = "upload" /\ req[r].pc = "put"
          /\ req[r].size # UnknownSize
          /\ req'[r].wrote
          => /\ exists(bucket', req[r].name)
             /\ bucket'[req[r].name].size = req[r].size
             /\ bucket'[req[r].name].size <= max_file_size]_vars

\* an upload of known size, exactly at the limit, has passed the size gate
\* and the existence check and is at its put
C23_Witness ==
    \E r \in Slots :
        /\ req[r].op = "upload" /\ req[r].pc = "put"
        /\ req[r].size = max_file_size
        /\ Len(req[r].content) = max_file_size

\* the most backend calls a request of the kind of rq makes: the calls its
\* handler has in a row, for a listing one and a stat per name
MaxCalls(rq) ==
    CASE rq.op = "upload" -> 2
      [] rq.op = "delete" -> 2
      [] rq.op = "info" -> 1
      [] rq.op = "download" -> 3
      [] rq.op = "list" -> 1 + Cardinality(Names)
      [] OTHER -> 0

\* C24 (request completion): when every backend call returns, every accepted
\* request gets its response; it never makes more backend calls than its
\* handler has in a row (no call is repeated), and its response, once
\* produced, stays as it is until the worker takes the next request.
C24_Completion ==
    /\ [](\A r \in Slots : req[r].calls <= MaxCalls(req[r]))
    /\ [][\A r \in Slots :
             req[r].pc = "done" =>
                 \/ req'[r] = IdleReq
                 \/ /\ req'[r].pc = "done"
                    /\ req'[r].status = req[r].status
                    /\ req'[r].body = req[r].body
                    /\ req'[r].calls = req[r].calls]_vars
    /\ \A r \in Slots : Outstanding(r) ~> req[r].pc = "done"

\* a download has ended after its three backend calls while an upload was
\* waiting for its put
C24_Witness ==
    \E r, u \in Slots :
        /\ Done(r, "download") /\ req[r].status = 200
        /\ req[r].calls = MaxCalls(req[r])
        /\ req[u].op = "upload" /\ req[u].pc = "put"

====
